---------------------------- MODULE Spec2Model ----------------------------
(***************************************************************************)
(* A model of course-deploy/update-dropdown.py: the post-render script     *)
(* that injects a version dropdown, an archive list and a deprecation      *)
(* banner into generated HTML files.                                       *)
(*                                                                         *)
(* Strings that the code matches character by character (directory names, *)
(* file paths) are sequences of one-character strings.  HTML text is a     *)
(* sequence of tokens; a token is a piece of text that every pattern of    *)
(* the script either matches whole or not at all.                          *)
(*                                                                         *)
(* A value that is computed once and read several times is bound with      *)
(* \E x \in {e} in an action and with Only({f(x) : x \in {e}}) in an        *)
(* expression: both are "let x = e", evaluated once.                       *)
(***************************************************************************)
EXTENDS Integers, Sequences, FiniteSets, TLC

VARIABLES
    pc,                      \* position of the running function
    \* get_available_versions
    archive_exists,          \* Path("_site/archive").exists()
    entries,                 \* the directory listing: records [name, is_dir]
    versions,                \* the list the function builds and returns
    \* generate_dropdown_html / generate_archive_versions_html
    prefix,                  \* the prefix argument
    current_version,         \* the current_version argument (<<>> is None)
    dropdown_html,           \* rendered dropdown fragment
    archive_html,            \* rendered archive list fragment
    \* detect_current_version_from_path
    file_path,               \* the path argument, a character sequence
    detected,                \* the value returned
    \* one file under the three injectors
    content,                 \* the file's text
    before,                  \* its text before the first call
    first,                   \* its text after the first successful call
    ok_calls,                \* number of calls that returned True
    calls,                   \* number of calls made
    ret,                     \* the last call's return value
    \* main
    argv,                    \* sys.argv[1:]
    fs,                      \* the files on disk: path -> text
    fs0,                     \* the files on disk when main started
    html_files,              \* glob("_site/**/*.html")
    archive_html_files,      \* glob("_site/archive/**/*.html")
    todo,                    \* files of the running loop not yet visited
    attempts,                \* per injector, per file: number of calls made
    dropdown_success_count,
    versions_success_count,
    warning_successs_count,
    failed_seen,             \* some injector call has returned False
    attempt_after_failure    \* a call was made after one returned False

discVars   == <<archive_exists, entries, versions>>
renderVars == <<prefix, current_version, dropdown_html, archive_html>>
detectVars == <<file_path, detected>>
fileVars   == <<content, before, first, ok_calls, calls, ret>>
mainVars   == <<argv, fs, fs0, html_files, archive_html_files, todo, attempts,
                dropdown_success_count, versions_success_count,
                warning_successs_count, failed_seen, attempt_after_failure>>
vars       == <<pc, discVars, renderVars, detectVars, fileVars, mainVars>>

-----------------------------------------------------------------------------
(* Bounds of the model *)

MaxEntries == 3      \* entries in the archive root
MaxVersions == 5     \* length of a version sequence handed to a renderer
MaxSegments == 3     \* segments of a path handed to the version detector
MaxFileLen == 4      \* tokens of a file handed to an injector
MaxCalls == 3        \* calls of one injector on one file

-----------------------------------------------------------------------------
(* Characters and character sequences *)

\* the one element of a singleton
Only(S) == CHOOSE x \in S : TRUE

Digits == {"0", "1", "2", "3", "4", "5", "6", "7", "8", "9"}

IsDigit(c) == c \in Digits

\* ord(c) for the characters that occur in names that are compared
Ord(c) ==
    CASE c = "\n" -> 10
      [] c = "." -> 46
      [] c = "/" -> 47
      [] c = "0" -> 48 [] c = "1" -> 49 [] c = "2" -> 50 [] c = "3" -> 51
      [] c = "4" -> 52 [] c = "5" -> 53 [] c = "6" -> 54 [] c = "7" -> 55
      [] c = "8" -> 56 [] c = "9" -> 57
      [] OTHER -> 120

DigitValue(c) == Ord(c) - 48

\* s < t for Python strings: by code point, a proper prefix is smaller
StrLess(s, t) ==
    \E i \in 1 .. Len(t) :
        /\ \A k \in 1 .. i - 1 : k <= Len(s) /\ Ord(s[k]) = Ord(t[k])
        /\ i > Len(s) \/ Ord(s[i]) < Ord(t[i])

StartsWith(s, t) == Len(s) >= Len(t) /\ SubSeq(s, 1, Len(t)) = t

EndsWith(s, t) == Len(s) >= Len(t) /\ SubSeq(s, Len(s) - Len(t) + 1, Len(s)) = t

\* \d{4}\.\d{2}\.\d{2} matched at position i of s
VersionAt(s, i) ==
    /\ i >= 1
    /\ i + 9 <= Len(s)
    /\ \A k \in {0, 1, 2, 3, 5, 6, 8, 9} : IsDigit(s[i + k])
    /\ s[i + 4] = "."
    /\ s[i + 7] = "."

\* $ without re.MULTILINE at position i of s (i is the index of the next
\* character): the end of the string, or just before a final newline
AtDollar(s, i) == i = Len(s) + 1 \/ (i = Len(s) /\ s[i] = "\n")

\* re.match(r"^\d{4}\.\d{2}\.\d{2}$", name)
MatchVersionName(name) == VersionAt(name, 1) /\ AtDollar(name, 11)

\* a string of the form YYYY.MM.DD, and nothing else
IsVersionId(s) == Len(s) = 10 /\ VersionAt(s, 1)

-----------------------------------------------------------------------------
(* get_available_versions *)

\* list.sort(reverse=True): a stable sort into descending order
RECURSIVE InsertReverse(_, _)
InsertReverse(x, sorted) ==
    IF sorted = <<>> THEN <<x>>
    ELSE IF StrLess(Head(sorted), x) THEN <<x>> \o sorted
    ELSE <<Head(sorted)>> \o InsertReverse(x, Tail(sorted))

RECURSIVE SortReverse(_)
SortReverse(list) ==
    IF list = <<>> THEN <<>>
    ELSE InsertReverse(list[Len(list)],
                       SortReverse(SubSeq(list, 1, Len(list) - 1)))

\* the loop over archive_path.iterdir(), which yields `items` in this order
RECURSIVE ScanItems(_)
ScanItems(items) ==
    IF items = <<>> THEN <<>>
    ELSE LET item == Head(items)
         IN  (IF item.is_dir /\ MatchVersionName(item.name)
              THEN <<item.name>> ELSE <<>>) \o ScanItems(Tail(items))

GetAvailableVersions(exists, items) ==
    SortReverse(IF exists THEN ScanItems(items) ELSE <<>>)

\* the orders in which iterdir() may yield the entries of a directory
Orderings(S) ==
    {o \in [1 .. Cardinality(S) -> S] :
        \A i, j \in 1 .. Cardinality(S) : i # j => o[i] # o[j]}

-----------------------------------------------------------------------------
(* Names used in the model *)

V20240101 == <<"2", "0", "2", "4", ".", "0", "1", ".", "0", "1">>
V20240615 == <<"2", "0", "2", "4", ".", "0", "6", ".", "1", "5">>
V20250115 == <<"2", "0", "2", "5", ".", "0", "1", ".", "1", "5">>
V20241301 == <<"2", "0", "2", "4", ".", "1", "3", ".", "0", "1">>

NameOld == <<"o", "l", "d">>
NameShort == <<"2", "0", "2", "4", ".", "1", ".", "5">>
NameLong == V20240101 \o <<"x">>
NameNewline == V20240615 \o <<"\n">>
NamePrefixed == <<"v">> \o V20240101

\* names an entry of the archive root may have
EntryNames ==
    {V20240101, V20240615, V20250115, NameOld, NameShort, NameLong,
     NameNewline, NamePrefixed}

\* the listings of the archive root: names are unique within a directory
Listings ==
    {l \in SUBSET [name : EntryNames, is_dir : BOOLEAN] :
        /\ Cardinality(l) <= MaxEntries
        /\ \A a, b \in l : a.name = b.name => a = b}

-----------------------------------------------------------------------------
(* Version discovery on its own *)

IdleDisc == archive_exists = FALSE /\ entries = {} /\ versions = <<>>

DiscoverInit ==
    /\ pc = "get_available_versions"
    /\ archive_exists \in BOOLEAN
    /\ entries \in Listings
    /\ archive_exists = FALSE => entries = {}
    /\ versions = <<>>

\* get_available_versions(), with iterdir() yielding the entries in any order
Discover ==
    /\ pc = "get_available_versions"
    /\ \E items \in Orderings(entries) :
          versions' = GetAvailableVersions(archive_exists, items)
    /\ pc' = "returned"
    /\ UNCHANGED <<archive_exists, entries>>
    /\ UNCHANGED <<renderVars, detectVars, fileVars, mainVars>>

-----------------------------------------------------------------------------
(* HTML text *)

\* A token: its kind t, and the prefix p and the string v interpolated in it
Tok(t) == [t |-> t, p |-> "", v |-> <<>>]
TokP(t, p) == [t |-> t, p |-> p, v |-> <<>>]
TokV(t, v) == [t |-> t, p |-> "", v |-> v]
TokPV(t, p, v) == [t |-> t, p |-> p, v |-> v]

Nl == Tok("nl")                  \* "\n"
NlNl == Tok("nlnl")              \* "\n\n"
Ws == Tok("ws")                  \* a newline and indentation
IsSpace(tok) == tok.t \in {"nl", "nlnl", "ws"}

NavClose == Tok("</nav>")
DdOpen == Tok("<li id=version-dropdown class=nav-item dropdown>")
UlClose == Tok("</ul>")
LiClose == Tok("</li>")
MainOpen == Tok("<main class=content id=quarto-document-content>")
MarkerStart == Tok("<!-- AUTOMATIC_VERSIONS_START -->")
MarkerEnd == Tok("<!-- AUTOMATIC_VERSIONS_END -->")
ListGroupOpen == Tok("<div class=list-group>")
ListGroupItemOpen == Tok("<div class=list-group-item list-group-item-action>")
DivOpen == Tok("<div class=d-flex>")
DivClose == Tok("</div>")
TextA == Tok("text A")
TextB == Tok("text B")

Count(s, tok) == Cardinality({i \in 1 .. Len(s) : s[i] = tok})

CountKind(s, t) == Cardinality({i \in 1 .. Len(s) : s[i].t = t})

\* the index of the first / last tok in s, 0 when there is none
FirstIndex(s, tok) ==
    IF \E i \in 1 .. Len(s) : s[i] = tok
    THEN CHOOSE i \in 1 .. Len(s) :
            s[i] = tok /\ \A j \in 1 .. i - 1 : s[j] # tok
    ELSE 0

LastIndex(s, tok) ==
    IF \E i \in 1 .. Len(s) : s[i] = tok
    THEN CHOOSE i \in 1 .. Len(s) :
            s[i] = tok /\ \A j \in i + 1 .. Len(s) : s[j] # tok
    ELSE 0

-----------------------------------------------------------------------------
(* generate_dropdown_html *)

DisplayLimit == 3

Take(s, n) == SubSeq(s, 1, IF Len(s) < n THEN Len(s) ELSE n)

RECURSIVE DropdownItems(_, _)
DropdownItems(display_versions, pfx) ==
    IF display_versions = <<>> THEN <<>>
    ELSE <<TokPV("item: /{prefix}/archive/{version}/index.html", pfx,
                 Head(display_versions))>>
         \o DropdownItems(Tail(display_versions), pfx)

DisplayVersions(vs) == Take(vs, DisplayLimit)

\* a slip: the "more" link as soon as the menu is full
HasMoreWhenFull(vs) == Len(vs) >= DisplayLimit

HasMore(vs) == Len(vs) > DisplayLimit

GenerateDropdownHtml(vs, pfx, current) ==
    LET display_versions == DisplayVersions(vs)
        has_more == HasMore(vs)
        badge_html == IF current # <<>>
                      THEN <<TokV("version-badge", current)>> ELSE <<>>
    IN  <<Ws, DdOpen, Tok("nav-link Version:")>> \o badge_html
        \o <<Tok("<ul class=dropdown-menu>"),
             TokP("item: /{prefix}/index.html Latest", pfx)>>
        \o DropdownItems(display_versions, pfx)
        \o (IF has_more
            THEN <<Tok("dropdown-divider"),
                   TokP("item: /{prefix}/versions.html More versions...", pfx)>>
            ELSE <<>>)
        \o <<Ws, UlClose, Ws, LiClose>>

-----------------------------------------------------------------------------
(* generate_archive_versions_html *)

MonthNames ==
    <<"January", "February", "March", "April", "May", "June", "July",
      "August", "September", "October", "November", "December">>

IsLeap(y) == (y % 4 = 0 /\ y % 100 # 0) \/ y % 400 = 0

DaysInMonth(y, m) ==
    IF m = 2 THEN (IF IsLeap(y) THEN 29 ELSE 28)
    ELSE IF m \in {4, 6, 9, 11} THEN 30 ELSE 31

\* datetime.strptime(version, "%Y.%m.%d").strftime("%B %d, %Y"), and the raw
\* version on ValueError, for a version dddd.dd.dd that text may follow
FormatDate(version) ==
    LET y == DigitValue(version[1]) * 1000 + DigitValue(version[2]) * 100
             + DigitValue(version[3]) * 10 + DigitValue(version[4])
        m == DigitValue(version[6]) * 10 + DigitValue(version[7])
        d == DigitValue(version[9]) * 10 + DigitValue(version[10])
    IN  IF /\ IsVersionId(version)
           /\ y >= 1
           /\ m \in 1 .. 12
           /\ d >= 1
           /\ d <= DaysInMonth(y, m)
        THEN <<MonthNames[m], " ">> \o SubSeq(version, 9, 10) \o <<",", " ">>
             \o SubSeq(version, 1, 4)
        ELSE version

ArchiveItem(version, pfx) ==
    <<ListGroupItemOpen, DivOpen, TokV("h5: Version {version}", version),
      TokV("small: {formatted_date}", FormatDate(version)), DivClose,
      TokPV("link: /{prefix}/archive/{version}/index.html", pfx, version),
      DivClose>>

RECURSIVE ArchiveItems(_, _)
ArchiveItems(vs, pfx) ==
    IF vs = <<>> THEN <<>>
    ELSE <<NlNl>> \o ArchiveItem(Head(vs), pfx) \o ArchiveItems(Tail(vs), pfx)

GenerateArchiveVersionsHtml(vs, pfx) ==
    IF vs = <<>> THEN <<>>
    ELSE <<ListGroupItemOpen, DivOpen, Tok("h5: Latest Version"),
           Tok("small: Current"), DivClose,
           TokP("link: /{prefix}/index.html", pfx), DivClose>>
         \o ArchiveItems(vs, pfx)

-----------------------------------------------------------------------------
(* The two renderers on their own *)

Prefixes == {"course", "docs"}

Latest == <<"L", "a", "t", "e", "s", "t">>

RenderIds == {V20240101, V20240615, V20241301}

\* the version sequences handed to a renderer
RECURSIVE SeqsUpTo(_, _)
SeqsUpTo(S, n) ==
    IF n = 0 THEN {<<>>}
    ELSE LET shorter == SeqsUpTo(S, n - 1)
         IN  shorter \cup {Append(s, x) : s \in shorter, x \in S}

IdleRender ==
    prefix = "" /\ current_version = <<>> /\ dropdown_html = <<>>
    /\ archive_html = <<>>

RenderInit ==
    /\ pc = "render"
    /\ versions \in SeqsUpTo(RenderIds, MaxVersions)
    /\ prefix \in Prefixes
    /\ current_version \in {<<>>, Latest, V20240101}
    /\ dropdown_html = <<>>
    /\ archive_html = <<>>

RenderDropdown ==
    /\ pc = "render"
    /\ dropdown_html' = GenerateDropdownHtml(versions, prefix, current_version)
    /\ pc' = "dropdown rendered"
    /\ UNCHANGED <<versions, prefix, current_version, archive_html>>
    /\ UNCHANGED <<archive_exists, entries, detectVars, fileVars, mainVars>>

RenderArchive ==
    /\ pc = "render"
    /\ archive_html' = GenerateArchiveVersionsHtml(versions, prefix)
    /\ pc' = "archive rendered"
    /\ UNCHANGED <<versions, prefix, current_version, dropdown_html>>
    /\ UNCHANGED <<archive_exists, entries, detectVars, fileVars, mainVars>>

-----------------------------------------------------------------------------
(* detect_current_version_from_path *)

Slash == "/"

\* s.split("/"): the pieces of s between its slashes
SplitSlash(s) ==
    LET Pieces(cuts) ==
            [k \in 1 .. Cardinality(cuts) - 1 |->
                SubSeq(s,
                       Only({c \in cuts :
                               Cardinality({x \in cuts : x < c}) = k - 1}) + 1,
                       Only({c \in cuts :
                               Cardinality({x \in cuts : x < c}) = k}) - 1)]
    IN  Only({Pieces(cuts) :
                cuts \in {{0, Len(s) + 1}
                            \cup {i \in 1 .. Len(s) : s[i] = Slash}}})

\* "/".join(parts), from parts[i] on
RECURSIVE JoinFrom(_, _)
JoinFrom(parts, i) ==
    IF i > Len(parts) THEN <<>>
    ELSE IF i = Len(parts) THEN parts[i]
    ELSE parts[i] \o <<Slash>> \o JoinFrom(parts, i + 1)

JoinSlash(parts) == JoinFrom(parts, 1)

IsNamedPart(seg) == seg \notin {<<>>, <<".">>}

DropEmptyAndDot(segs) == SelectSeq(segs, IsNamedPart)

\* the root pathlib gives a POSIX path: "//" for exactly two leading slashes
PosixRoot(s) ==
    LET lead == Cardinality({i \in 1 .. Len(s) :
                                \A j \in 1 .. i : s[j] = Slash})
    IN  IF lead = 0 THEN <<>>
        ELSE IF lead = 2 THEN <<Slash, Slash>> ELSE <<Slash>>

\* the parts of Path(file_path) below its root
PathParts(s) == DropEmptyAndDot(SplitSlash(s))

\* Path(file_path).as_posix()
AsPosix(s) ==
    LET Str(parts) == PosixRoot(s) \o JoinSlash(parts)
    IN  IF PathParts(s) = <<>> /\ PosixRoot(s) = <<>> THEN <<".">>
        ELSE Only({Str(parts) : parts \in {PathParts(s)}})

ArchiveDir == <<"a", "r", "c", "h", "i", "v", "e">>

\* the positions where /archive/(\d{4}\.\d{2}\.\d{2})(?:/|$) matches in p
VersionMatches(p) ==
    {i \in 1 .. Len(p) :
        /\ i + 8 <= Len(p)
        /\ SubSeq(p, i, i + 8) = <<Slash>> \o ArchiveDir \o <<Slash>>
        /\ VersionAt(p, i + 9)
        /\ \/ (i + 19 <= Len(p) /\ p[i + 19] = Slash)
           \/ AtDollar(p, i + 19)}

\* m.group(1) of the first match in p, and "Latest" when there is none
FirstVersionIn(p) ==
    LET First(m) == IF m # {}
                    THEN SubSeq(p, Only({i \in m : \A j \in m : i <= j}) + 9,
                                Only({i \in m : \A j \in m : i <= j}) + 18)
                    ELSE Latest
    IN  Only({First(m) : m \in {VersionMatches(p)}})

DetectCurrentVersionFromPath(fp) ==
    Only({FirstVersionIn(p) : p \in {AsPosix(fp)}})

\* segments a path handed to the detector may have
PathSegments ==
    {ArchiveDir, V20240615, V20250115, NameNewline, NameLong, NameOld,
     <<"m", "y">> \o ArchiveDir, <<".">>, <<>>}

\* the paths handed to the detector: relative, or with a leading slash
DetectPaths ==
    {lead \o JoinSlash(segs) :
        lead \in {<<>>, <<Slash>>},
        segs \in SeqsUpTo(PathSegments, MaxSegments) \ {<<>>}}

IdleDetect == file_path = <<>> /\ detected = <<>>

DetectInit ==
    /\ pc = "detect"
    /\ file_path \in DetectPaths
    /\ detected = <<>>

Detect ==
    /\ pc = "detect"
    /\ detected' = DetectCurrentVersionFromPath(file_path)
    /\ pc' = "detected"
    /\ UNCHANGED file_path
    /\ UNCHANGED <<discVars, renderVars, fileVars, mainVars>>

-----------------------------------------------------------------------------
(* inject_dropdown_into_html *)

\* marker_css: the <style> block put before the dropdown
MarkerCss == Tok("<style>#version-dropdown{list-style:none}</style>")

\* The end of the match of
\*   <li id="version-dropdown" class="nav-item dropdown">.*?</ul>\s*</li>
\* that starts at s[1], 0 when there is none: the first </ul> that white
\* space and </li> follow
DropdownBlockEnd(s) ==
    LET SpaceEnd(j) ==
            CHOOSE k \in j + 1 .. Len(s) + 1 :
                /\ \A x \in j + 1 .. k - 1 : IsSpace(s[x])
                /\ k <= Len(s) => ~IsSpace(s[k])
        Closes(j) ==
            /\ s[j] = UlClose
            /\ SpaceEnd(j) <= Len(s)
            /\ s[SpaceEnd(j)] = LiClose
    IN  IF s # <<>> /\ s[1] = DdOpen /\ \E j \in 2 .. Len(s) : Closes(j)
        THEN SpaceEnd(CHOOSE j \in 2 .. Len(s) :
                         Closes(j) /\ \A i \in 2 .. j - 1 : ~Closes(i))
        ELSE 0

\* re.sub(<the pattern above>, "", content): every match, left to right
RECURSIVE StripDropdown(_)
StripDropdown(s) ==
    IF s = <<>> THEN <<>>
    ELSE IF DropdownBlockEnd(s) # 0
         THEN StripDropdown(SubSeq(s, DropdownBlockEnd(s) + 1, Len(s)))
         ELSE <<Head(s)>> \o StripDropdown(Tail(s))

\* s.replace(old, new, 1) for a one-token old
ReplaceFirst(s, old, new) ==
    LET i == FirstIndex(s, old)
    IN  IF i = 0 THEN s
        ELSE SubSeq(s, 1, i - 1) \o new \o SubSeq(s, i + 1, Len(s))

\* The function's result on a file that holds text c: the value returned and
\* the text the file holds afterwards.  io_ok is whether the file could be
\* opened; an exception is caught and leaves the file as it was.
InjectDropdownIntoHtml(c, dd, io_ok) ==
    LET full == <<MarkerCss, Nl>> \o dd
        Injected(stripped) ==
            IF Count(stripped, NavClose) > 0
            THEN [ok |-> TRUE,
                  content |-> ReplaceFirst(stripped, NavClose,
                                           full \o <<Nl, NavClose>>)]
            ELSE [ok |-> FALSE, content |-> c]
    IN  IF ~io_ok THEN [ok |-> FALSE, content |-> c]
        ELSE Only({Injected(stripped) : stripped \in {StripDropdown(c)}})

-----------------------------------------------------------------------------
(* inject_archive_versions_into_versions_html *)

\* the first tok at an index above i, 0 when there is none
NextIndex(s, i, tok) ==
    IF \E j \in i + 1 .. Len(s) : s[j] = tok
    THEN CHOOSE j \in i + 1 .. Len(s) :
            s[j] = tok /\ \A k \in i + 1 .. j - 1 : s[k] # tok
    ELSE 0

\* <div\b[^>]*\bclass\s*=\s*"[^"]*\blist-group\b[^"]*"[^>]*>: a div whose
\* class holds list-group as a word, which list-group-item does too
IsListGroupDiv(tok) == tok \in {ListGroupOpen, ListGroupItemOpen}

\* a slip: (.*) for (.*?), which runs to the last end marker
MarkerMatchGreedy(s) ==
    LET i == FirstIndex(s, MarkerStart)
        j == IF i = 0 THEN 0 ELSE LastIndex(s, MarkerEnd)
    IN  IF j <= i THEN <<0, 0>> ELSE <<i, j>>

\* where (start_marker)(.*?)(end_marker) matches first: <<i, j>>, the
\* indices of the two markers, <<0, 0>> when there is no match
MarkerMatch(s) ==
    LET i == FirstIndex(s, MarkerStart)
        j == IF i = 0 THEN 0 ELSE NextIndex(s, i, MarkerEnd)
    IN  IF j = 0 THEN <<0, 0>> ELSE <<i, j>>

\* where (<div ... list-group ...>)(.*?)(</div>) matches first
DivMatch(s) ==
    LET opens == {i \in 1 .. Len(s) : IsListGroupDiv(s[i])}
        i == IF opens = {} THEN 0
             ELSE CHOOSE k \in opens : \A x \in opens : k <= x
        j == IF i = 0 THEN 0 ELSE NextIndex(s, i, DivClose)
    IN  IF j = 0 THEN <<0, 0>> ELSE <<i, j>>

InjectArchiveVersionsIntoVersionsHtml(c, frag, io_ok) ==
    LET mm == MarkerMatch(c)
        dm == DivMatch(c)
    IN  IF ~io_ok THEN [ok |-> FALSE, content |-> c]
        ELSE IF mm # <<0, 0>>
        THEN [ok |-> TRUE,
              content |-> SubSeq(c, 1, mm[1]) \o <<Nl>> \o frag
                          \o SubSeq(c, mm[2], Len(c))]
        ELSE IF dm # <<0, 0>>
        THEN [ok |-> TRUE,
              content |-> SubSeq(c, 1, dm[1]) \o frag
                          \o SubSeq(c, dm[2], Len(c))]
        ELSE [ok |-> FALSE, content |-> c]

-----------------------------------------------------------------------------
(* inject_deprecation_warning *)

\* the tag that holds id="deprecation-warning"
WarningOpen == Tok("<div id=deprecation-warning class=callout>")

WarningHtml(pfx) ==
    <<Nl, WarningOpen, Tok("callout-header Warning"),
      TokP("callout-body: latest version at /{prefix}/index.html", pfx),
      DivClose, Nl>>

\* 'id="deprecation-warning"' in content
HasWarning(c) == Count(c, WarningOpen) > 0

InsertWarning(c, pfx) ==
    ReplaceFirst(c, MainOpen, <<MainOpen>> \o WarningHtml(pfx))

\* a slip: the banner inserted without looking for one
InjectDeprecationWarningUnguarded(c, pfx, io_ok) ==
    IF ~io_ok THEN [ok |-> FALSE, content |-> c]
    ELSE [ok |-> TRUE, content |-> InsertWarning(c, pfx)]

InjectDeprecationWarning(c, pfx, io_ok) ==
    IF ~io_ok THEN [ok |-> FALSE, content |-> c]
    ELSE IF HasWarning(c) THEN [ok |-> TRUE, content |-> c]
    ELSE [ok |-> TRUE, content |-> InsertWarning(c, pfx)]

-----------------------------------------------------------------------------
(* One file under one injector, called again and again *)

IdleFile ==
    /\ content = <<>> /\ before = <<>> /\ first = <<>>
    /\ ok_calls = 0 /\ calls = 0 /\ ret = FALSE

IdleMain ==
    /\ argv = <<>> /\ fs = <<>> /\ fs0 = <<>>
    /\ html_files = {} /\ archive_html_files = {} /\ todo = {}
    /\ attempts = <<>>
    /\ dropdown_success_count = 0
    /\ versions_success_count = 0
    /\ warning_successs_count = 0
    /\ failed_seen = FALSE /\ attempt_after_failure = FALSE

\* the texts a file may hold: up to MaxFileLen tokens of an alphabet
FileInit(alphabet) ==
    /\ content \in SeqsUpTo(alphabet, MaxFileLen)
    /\ before = content
    /\ first = <<>>
    /\ ok_calls = 0
    /\ calls = 0
    /\ ret = FALSE

\* what a call that gave r leaves behind
Called(r) ==
    /\ content' = r.content
    /\ ret' = r.ok
    /\ calls' = calls + 1
    /\ ok_calls' = IF r.ok THEN ok_calls + 1 ELSE ok_calls
    /\ first' = IF r.ok /\ ok_calls = 0 THEN r.content ELSE first
    /\ UNCHANGED <<pc, before, discVars, renderVars, detectVars, mainVars>>

DropdownAlphabet == {TextA, NavClose, DdOpen, UlClose, Ws, LiClose}

FourVersions == <<V20250115, V20240615, V20240101, V20241301>>

DropdownInit ==
    /\ pc = "inject_dropdown_into_html"
    /\ FileInit(DropdownAlphabet)
    /\ dropdown_html \in
         {GenerateDropdownHtml(<<>>, "course", <<>>),
          GenerateDropdownHtml(<<V20240615>>, "course", Latest),
          GenerateDropdownHtml(FourVersions, "docs", V20240615)}
    /\ prefix = "" /\ current_version = <<>> /\ archive_html = <<>>
    /\ IdleDisc /\ IdleDetect /\ IdleMain

CallInjectDropdown ==
    /\ pc = "inject_dropdown_into_html"
    /\ calls < MaxCalls
    /\ \E io_ok \in BOOLEAN :
          Called(InjectDropdownIntoHtml(content, dropdown_html, io_ok))

DropdownNext == CallInjectDropdown

DropdownSpec == DropdownInit /\ [][DropdownNext]_vars

ArchiveAlphabet == {TextA, MarkerStart, MarkerEnd, ListGroupOpen, DivClose}

ArchiveInit ==
    /\ pc = "inject_archive_versions_into_versions_html"
    /\ FileInit(ArchiveAlphabet)
    /\ archive_html \in
         {GenerateArchiveVersionsHtml(<<>>, "course"),
          GenerateArchiveVersionsHtml(<<V20240615>>, "course"),
          GenerateArchiveVersionsHtml(<<V20240615, V20241301>>, "docs")}
    /\ prefix = "" /\ current_version = <<>> /\ dropdown_html = <<>>
    /\ IdleDisc /\ IdleDetect /\ IdleMain

CallInjectArchive ==
    /\ pc = "inject_archive_versions_into_versions_html"
    /\ calls < MaxCalls
    /\ \E io_ok \in BOOLEAN :
          Called(InjectArchiveVersionsIntoVersionsHtml(content, archive_html,
                                                       io_ok))

ArchiveNext == CallInjectArchive

ArchiveSpec == ArchiveInit /\ [][ArchiveNext]_vars

\* a <main> tag the pattern of the injector does not match
MainOther == Tok("<main id=quarto-document-content class=content>")

WarningAlphabet == {TextA, MainOpen, MainOther, WarningOpen}

WarningInit ==
    /\ pc = "inject_deprecation_warning"
    /\ FileInit(WarningAlphabet)
    /\ prefix \in Prefixes
    /\ current_version = <<>> /\ dropdown_html = <<>> /\ archive_html = <<>>
    /\ IdleDisc /\ IdleDetect /\ IdleMain

CallInjectWarning ==
    /\ pc = "inject_deprecation_warning"
    /\ calls < MaxCalls
    /\ \E io_ok \in BOOLEAN :
          Called(InjectDeprecationWarning(content, prefix, io_ok))

WarningNext == CallInjectWarning

WarningSpec == WarningInit /\ [][WarningNext]_vars

-----------------------------------------------------------------------------
(* Specifications of the pure functions *)

DiscoverStart ==
    DiscoverInit /\ IdleRender /\ IdleDetect /\ IdleFile /\ IdleMain

DiscoverNext == Discover

DiscoverSpec == DiscoverStart /\ [][DiscoverNext]_vars

RenderStart ==
    /\ RenderInit /\ archive_exists = FALSE /\ entries = {}
    /\ IdleDetect /\ IdleFile /\ IdleMain

RenderNext == RenderDropdown \/ RenderArchive

RenderSpec == RenderStart /\ [][RenderNext]_vars

DetectStart ==
    DetectInit /\ IdleDisc /\ IdleRender /\ IdleFile /\ IdleMain

DetectNext == Detect

DetectSpec == DetectStart /\ [][DetectNext]_vars

-----------------------------------------------------------------------------
(* Claims about version discovery, the renderers and the detector *)

\* the directories of the listing named YYYY.MM.DD
DatedDirectories ==
    IF archive_exists
    THEN {e.name : e \in {x \in entries : x.is_dir /\ IsVersionId(x.name)}}
    ELSE {}

\* C6: get_available_versions returns exactly the names of the entries that
\* are directories and have the form 4 digits, dot, 2 digits, dot, 2 digits,
\* each once, in strictly descending order, and the empty sequence when the
\* archive root does not exist.
C6_ExactlyDatedDirectories ==
    pc = "returned" =>
        /\ {versions[i] : i \in 1 .. Len(versions)} = DatedDirectories
        /\ Len(versions) = Cardinality(DatedDirectories)
        /\ \A i, j \in 1 .. Len(versions) :
              i < j => StrLess(versions[j], versions[i])

IsDropdownEntry(tok) ==
    tok.t \in {"item: /{prefix}/index.html Latest",
               "item: /{prefix}/archive/{version}/index.html",
               "dropdown-divider",
               "item: /{prefix}/versions.html More versions..."}

\* C5: generate_dropdown_html emits one Latest entry, then one entry for each
\* of the first min(3, n) versions in input order and for no other version,
\* and the divider plus the "More versions" entry linking to
\* /{prefix}/versions.html if and only if there are more than 3 versions.
C5_DropdownEntries ==
    pc = "dropdown rendered" =>
        LET n == Len(versions)
            shown == IF n < 3 THEN n ELSE 3
        IN  SelectSeq(dropdown_html, IsDropdownEntry) =
              <<TokP("item: /{prefix}/index.html Latest", prefix)>>
              \o [i \in 1 .. shown |->
                    TokPV("item: /{prefix}/archive/{version}/index.html",
                          prefix, versions[i])]
              \o (IF n > 3
                  THEN <<Tok("dropdown-divider"),
                         TokP("item: /{prefix}/versions.html More versions...",
                              prefix)>>
                  ELSE <<>>)

C5_Witness ==
    /\ pc = "dropdown rendered"
    /\ Len(versions) = 5
    /\ versions[4] # versions[1]
    /\ CountKind(dropdown_html, "item: /{prefix}/archive/{version}/index.html") = 3
    /\ CountKind(dropdown_html, "dropdown-divider") = 1

\* the positions of an archive segment that a YYYY.MM.DD segment follows
ArchiveSegments(parts) ==
    {k \in 1 .. Len(parts) - 1 :
        parts[k] = ArchiveDir /\ IsVersionId(parts[k + 1])}

\* C7: detect_current_version_from_path returns the version id V whenever
\* the path contains a segment named archive immediately followed by a
\* segment V of the form YYYY.MM.DD, also when archive is the first segment
\* of a relative path, and returns "Latest" for every other path.
C7_ArchiveSegmentRule ==
    pc = "detected" =>
        LET parts == PathParts(file_path)
            hits == ArchiveSegments(parts)
        IN  IF hits # {}
            THEN detected \in {parts[k + 1] : k \in hits}
            ELSE detected = Latest

-----------------------------------------------------------------------------
(* Claims about the injectors *)

\* C1: on a file that contains </nav>, calling inject_dropdown_into_html
\* again with the same fragment leaves the file as the first call left it;
\* nothing the first call injected is duplicated.
C1_DropdownIdempotent ==
    (Count(before, NavClose) > 0 /\ ok_calls >= 1) => content = first

\* the number of matches of the dropdown pattern in s, left to right
RECURSIVE DropdownBlocks(_)
DropdownBlocks(s) ==
    IF s = <<>> THEN 0
    ELSE IF DropdownBlockEnd(s) # 0
         THEN 1 + DropdownBlocks(SubSeq(s, DropdownBlockEnd(s) + 1, Len(s)))
         ELSE DropdownBlocks(Tail(s))

\* C8: after a successful inject_dropdown_into_html on a file with one or
\* more </nav>, the file holds exactly one version-dropdown block, the block
\* sits immediately before the last </nav> of the file, and all text outside
\* the injected block and any stripped earlier block is unchanged.
C8_BlockBeforeLastNav ==
    (Count(before, NavClose) > 0 /\ ok_calls = 1) =>
        LET injected == <<MarkerCss, Nl>> \o dropdown_html \o <<Nl>>
            k == LastIndex(first, NavClose)
        IN  /\ DropdownBlocks(first) = 1
            /\ k > Len(injected)
            /\ SubSeq(first, k - Len(injected), k - 1) = injected
            /\ SubSeq(first, 1, k - Len(injected) - 1)
                 \o SubSeq(first, k, Len(first)) = StripDropdown(before)

\* C2: on a file that holds the main-content opening tag and no banner,
\* after any number n >= 1 of calls of inject_deprecation_warning that
\* returned True the file holds exactly one element with the id
\* deprecation-warning, placed immediately after the main-content opening
\* tag, and every call after the first left the file as it was.
C2_BannerOnce ==
    (Count(before, MainOpen) > 0 /\ ~HasWarning(before) /\ ok_calls >= 1) =>
        /\ Count(content, WarningOpen) = 1
        /\ \E i \in 1 .. Len(content) :
              /\ content[i] = MainOpen
              /\ SubSeq(content, i + 1, i + Len(WarningHtml(prefix)))
                   = WarningHtml(prefix)
        /\ content = first

C2_Witness ==
    /\ Count(before, MainOpen) > 0
    /\ ~HasWarning(before)
    /\ ok_calls >= 2
    /\ ret = TRUE
    /\ Count(content, WarningOpen) = 1

\* the first marker pair of s: the first start marker that an end marker
\* follows, and the first end marker after it
HasMarkerPair(s) ==
    \E i, j \in 1 .. Len(s) : i < j /\ s[i] = MarkerStart /\ s[j] = MarkerEnd

PairStart(s) ==
    CHOOSE i \in 1 .. Len(s) :
        /\ s[i] = MarkerStart
        /\ \E j \in i + 1 .. Len(s) : s[j] = MarkerEnd
        /\ \A k \in 1 .. i - 1 :
              ~(s[k] = MarkerStart /\ \E j \in k + 1 .. Len(s) : s[j] = MarkerEnd)

PairEnd(s) ==
    CHOOSE j \in PairStart(s) + 1 .. Len(s) :
        s[j] = MarkerEnd /\ \A k \in PairStart(s) + 1 .. j - 1 : s[k] # MarkerEnd

\* C9 as stated: on a file with a marker pair the injector uses the markers
\* even when a list-group div is present, replaces exactly the text strictly
\* between the first marker pair with the rendered fragment, and leaves both
\* markers and all text before and after them unchanged.
C9_RegionIsFragment ==
    (HasMarkerPair(before) /\ ok_calls >= 1) =>
        first = SubSeq(before, 1, PairStart(before)) \o archive_html
                \o SubSeq(before, PairEnd(before), Len(before))

\* C9 as amended: the text strictly between the first marker pair becomes a
\* newline followed by the rendered fragment; the markers and all text
\* before and after them are unchanged, also when a list-group div is present.
C9_RegionIsNewlineThenFragment ==
    (HasMarkerPair(before) /\ ok_calls >= 1) =>
        first = SubSeq(before, 1, PairStart(before)) \o <<Nl>> \o archive_html
                \o SubSeq(before, PairEnd(before), Len(before))

C9_Witness ==
    /\ HasMarkerPair(before)
    /\ ok_calls >= 1
    /\ Count(before, ListGroupOpen) > 0
    /\ Count(before, DivClose) > 0
    /\ PairEnd(before) > PairStart(before) + 1
    /\ archive_html # <<>>
    /\ content = first

\* C10: on a file matched by either strategy, calling
\* inject_archive_versions_into_versions_html twice with the same non-empty
\* fragment leaves the file as calling it once does.
C10_ArchiveIdempotent ==
    (archive_html # <<>> /\ ok_calls >= 1) => content = first

-----------------------------------------------------------------------------
(* The files on disk, seen from the working directory *)

SiteDir == <<"_", "s", "i", "t", "e">>
DotHtml == <<".", "h", "t", "m", "l">>
IndexHtml == <<"i", "n", "d", "e", "x">> \o DotHtml
VersionsHtml == <<"v", "e", "r", "s", "i", "o", "n", "s">> \o DotHtml
SiteCss == <<"s", "i", "t", "e", ".", "c", "s", "s">>

PathIndex == JoinSlash(<<SiteDir, IndexHtml>>)
PathVersions == JoinSlash(<<SiteDir, VersionsHtml>>)
PathArchiveIndex == JoinSlash(<<SiteDir, ArchiveDir, V20240615, IndexHtml>>)
PathOldVersions == JoinSlash(<<SiteDir, ArchiveDir, NameOld, VersionsHtml>>)
PathCss == JoinSlash(<<SiteDir, SiteCss>>)

\* the texts each file of the model may hold when main starts
InitialTexts ==
    [p \in {PathIndex, PathVersions, PathArchiveIndex, PathOldVersions, PathCss}
       |-> CASE p = PathIndex ->
                  {<<TextA, NavClose, MainOpen>>, <<TextA>>}
             [] p = PathVersions ->
                  {<<NavClose, MarkerStart, TextA, MarkerEnd>>,
                   <<NavClose, ListGroupOpen, TextA, DivClose>>}
             [] p = PathArchiveIndex ->
                  {<<NavClose, MainOpen, TextA>>, <<MainOpen>>}
             [] p = PathOldVersions ->
                  {<<NavClose, MainOpen, MarkerStart, TextB, MarkerEnd>>,
                   <<TextB>>}
             [] p = PathCss -> {<<TextA>>}]

\* the file trees main may find: the style sheet and any of the pages, each
\* with one of its texts
FileTrees ==
    UNION {{f \in [present -> UNION {InitialTexts[p] : p \in present}] :
               \A p \in present : f[p] \in InitialTexts[p]} :
           present \in {pages \cup {PathCss} :
                           pages \in SUBSET (DOMAIN InitialTexts)}}

\* Path("_site/archive").exists(), and what iterdir() yields there
ArchiveRoot == JoinSlash(<<SiteDir, ArchiveDir>>) \o <<Slash>>

ArchiveExists(tree) == \E p \in DOMAIN tree : StartsWith(p, ArchiveRoot)

ArchiveEntries(tree) ==
    {[name |-> SplitSlash(p)[3], is_dir |-> Len(SplitSlash(p)) > 3] :
        p \in {q \in DOMAIN tree : StartsWith(q, ArchiveRoot)}}

\* glob.glob(root + "**/*.html", recursive=True): the files below root whose
\* name ends in .html, hidden files and directories left out
GlobHtml(tree, root) ==
    {p \in DOMAIN tree :
        /\ StartsWith(p, root)
        /\ EndsWith(p, DotHtml)
        /\ \E parts \in {SplitSlash(p)} :
              \A i \in 2 .. Len(parts) :
                  parts[i] # <<>> /\ Head(parts[i]) # "."}

-----------------------------------------------------------------------------
(* main *)

MainInit ==
    /\ pc = "main"
    /\ argv \in {<<>>, <<"course">>}
    /\ fs \in FileTrees
    /\ fs0 = fs
    /\ html_files = {} /\ archive_html_files = {} /\ todo = {}
    /\ attempts = [dropdown |-> [p \in DOMAIN fs |-> 0],
                   archive |-> [p \in DOMAIN fs |-> 0],
                   warning |-> [p \in DOMAIN fs |-> 0]]
    /\ dropdown_success_count = 0
    /\ versions_success_count = 0
    /\ warning_successs_count = 0
    /\ failed_seen = FALSE /\ attempt_after_failure = FALSE
    /\ archive_exists = ArchiveExists(fs)
    /\ entries = ArchiveEntries(fs)
    /\ versions = <<>>
    /\ IdleRender /\ IdleDetect /\ IdleFile

\* no prefix argument: the error message and sys.exit(1)
ExitNoPrefix ==
    /\ pc = "main"
    /\ Len(argv) = 0
    /\ pc' = "exit 1"
    /\ UNCHANGED <<discVars, renderVars, detectVars, fileVars, mainVars>>

\* from reading the prefix to the first glob
Prepare ==
    /\ pc = "main"
    /\ Len(argv) > 0
    /\ \E items \in Orderings(entries) :
       \E vs \in {GetAvailableVersions(archive_exists, items)} :
       \E files \in {GlobHtml(fs, SiteDir \o <<Slash>>)} :
              /\ prefix' = argv[1]
              /\ versions' = vs
              /\ dropdown_html' = GenerateDropdownHtml(vs, argv[1], <<>>)
              /\ archive_html' = GenerateArchiveVersionsHtml(vs, argv[1])
              /\ html_files' = files
              /\ todo' = files
    /\ pc' = "dropdown loop"
    /\ UNCHANGED <<archive_exists, entries, current_version, detectVars,
                   fileVars, argv, fs, fs0, archive_html_files, attempts,
                   dropdown_success_count, versions_success_count,
                   warning_successs_count, failed_seen, attempt_after_failure>>

\* a slip: the loop left at the first file that fails
RemainingAfterBreak(f, ok) == IF ok THEN todo \ {f} ELSE {}

\* the files a loop still has to visit once it has visited f; ok is whether
\* every injector call on f returned True
RemainingAfter(f, ok) == todo \ {f}

Bump(att, kind, f) == [att EXCEPT ![kind][f] = @ + 1]

\* one iteration of the loop over html_files, on a file still to visit;
\* io2 is read for a versions.html file only
DropdownLoopStep ==
    /\ pc = "dropdown loop"
    /\ \E html_file \in todo, io1 \in BOOLEAN, io2 \in BOOLEAN :
       \E cv \in {DetectCurrentVersionFromPath(html_file)} :
       \E dd \in {GenerateDropdownHtml(versions, prefix, cv)} :
       \E r1 \in {InjectDropdownIntoHtml(fs[html_file], dd, io1)} :
       \E r2 \in {InjectArchiveVersionsIntoVersionsHtml(r1.content,
                                                         archive_html, io2)} :
          LET is_versions == EndsWith(html_file, VersionsHtml)
              ok == r1.ok /\ (is_versions => r2.ok)
          IN  /\ (is_versions \/ io2)
              /\ current_version' = cv
              /\ dropdown_html' = dd
              /\ fs' = [fs EXCEPT ![html_file] =
                           IF is_versions THEN r2.content ELSE r1.content]
              /\ dropdown_success_count' =
                   IF r1.ok THEN dropdown_success_count + 1
                   ELSE dropdown_success_count
              /\ versions_success_count' =
                   IF is_versions /\ r2.ok THEN versions_success_count + 1
                   ELSE versions_success_count
              /\ attempts' =
                   IF is_versions
                   THEN Bump(Bump(attempts, "dropdown", html_file),
                             "archive", html_file)
                   ELSE Bump(attempts, "dropdown", html_file)
              /\ failed_seen' = (failed_seen \/ ~ok)
              /\ attempt_after_failure' =
                   (attempt_after_failure \/ failed_seen
                    \/ (is_versions /\ ~r1.ok))
              /\ todo' = RemainingAfter(html_file, ok)
    /\ UNCHANGED <<pc, discVars, prefix, archive_html, detectVars, fileVars,
                   argv, fs0, html_files, archive_html_files,
                   warning_successs_count>>

\* the loop over html_files is over: the second glob
StartWarningLoop ==
    /\ pc = "dropdown loop"
    /\ todo = {}
    /\ \E files \in {GlobHtml(fs, ArchiveRoot)} :
          archive_html_files' = files /\ todo' = files
    /\ pc' = "warning loop"
    /\ UNCHANGED <<discVars, renderVars, detectVars, fileVars, argv, fs, fs0,
                   html_files, attempts, dropdown_success_count,
                   versions_success_count, warning_successs_count,
                   failed_seen, attempt_after_failure>>

\* one iteration of the loop over archive_html_files
WarningLoopStep ==
    /\ pc = "warning loop"
    /\ \E archive_file \in todo, io_ok \in BOOLEAN :
       \E r \in {InjectDeprecationWarning(fs[archive_file], prefix, io_ok)} :
              /\ fs' = [fs EXCEPT ![archive_file] = r.content]
              /\ warning_successs_count' =
                   IF r.ok THEN warning_successs_count + 1
                   ELSE warning_successs_count
              /\ attempts' = Bump(attempts, "warning", archive_file)
              /\ failed_seen' = (failed_seen \/ ~r.ok)
              /\ attempt_after_failure' = (attempt_after_failure \/ failed_seen)
              /\ todo' = RemainingAfter(archive_file, r.ok)
    /\ UNCHANGED <<pc, discVars, renderVars, detectVars, fileVars, argv, fs0,
                   html_files, archive_html_files, dropdown_success_count,
                   versions_success_count>>

\* the three lines of the summary
Report ==
    /\ pc = "warning loop"
    /\ todo = {}
    /\ pc' = "reported"
    /\ UNCHANGED <<discVars, renderVars, detectVars, fileVars, mainVars>>

Init == MainInit

Next ==
    \/ ExitNoPrefix
    \/ Prepare
    \/ DropdownLoopStep
    \/ StartWarningLoop
    \/ WarningLoopStep
    \/ Report

Spec == Init /\ [][Next]_vars

\* main runs to its end: one thread, and every step of it terminates
FairSpec == Spec /\ WF_vars(Next)

-----------------------------------------------------------------------------
(* Claims about a full run of main *)

\* the archive-list region of a versions.html text: the text between the
\* first marker pair, else the inner text of the first list-group div
ArchiveRegion(c) ==
    IF HasMarkerPair(c)
    THEN SubSeq(c, PairStart(c) + 1, PairEnd(c) - 1)
    ELSE IF \E i, j \in 1 .. Len(c) :
               i < j /\ IsListGroupDiv(c[i]) /\ c[j] = DivClose
    THEN LET i == CHOOSE k \in 1 .. Len(c) :
                     /\ IsListGroupDiv(c[k])
                     /\ \A x \in 1 .. k - 1 : ~IsListGroupDiv(c[x])
             j == CHOOSE k \in i + 1 .. Len(c) :
                     c[k] = DivClose /\ \A x \in i + 1 .. k - 1 : c[x] # DivClose
         IN  SubSeq(c, i + 1, j - 1)
    ELSE <<>>

\* C3: when the version sequence is empty, generate_archive_versions_html
\* returns the empty string and the run leaves the archive-list region of
\* every versions.html file exactly as it was before the run.
C3_EmptyLeavesRegion ==
    (pc = "reported" /\ versions = <<>>) =>
        /\ archive_html = <<>>
        /\ \A f \in html_files :
              EndsWith(f, VersionsHtml) =>
                  ArchiveRegion(fs[f]) = ArchiveRegion(fs0[f])

\* what holds of the attempts and the counts at every point of a run
AttemptsInOrder ==
    /\ \A f \in DOMAIN fs :
          /\ attempts.dropdown[f] <= 1
          /\ attempts.warning[f] <= 1
          /\ attempts.archive[f] <= attempts.dropdown[f]
    /\ pc = "reported" =>
          /\ \A f \in DOMAIN fs :
                /\ attempts.dropdown[f] = (IF f \in html_files THEN 1 ELSE 0)
                /\ attempts.warning[f] =
                     (IF f \in archive_html_files THEN 1 ELSE 0)
          /\ html_files = GlobHtml(fs0, SiteDir \o <<Slash>>)
          /\ archive_html_files = GlobHtml(fs0, ArchiveRoot)
          /\ dropdown_success_count <= Cardinality(html_files)
          /\ warning_successs_count <= Cardinality(archive_html_files)
          /\ versions_success_count
               <= Cardinality({f \in DOMAIN fs : attempts.archive[f] = 1})

\* C4: in a run of main with a prefix argument, whatever the files and
\* whichever injector calls fail, every enumerated HTML file gets exactly one
\* dropdown injection attempt and every file under the archive subtree
\* exactly one banner injection attempt, a failure on one file does not stop
\* the attempts on the others, the run reaches the final report, and each
\* reported success count is at most the number of files attempted.
C4_BestEffortBatch ==
    /\ []AttemptsInOrder
    /\ (pc = "main" /\ Len(argv) > 0) ~> (pc = "reported")

C4_Witness ==
    /\ pc = "reported"
    /\ Cardinality(html_files) >= 3
    /\ Cardinality(archive_html_files) >= 2
    /\ attempt_after_failure
    /\ dropdown_success_count < Cardinality(html_files)
    /\ warning_successs_count < Cardinality(archive_html_files)
    /\ warning_successs_count > 0

=============================================================================
